---- MODULE Spec2Model ----
(***************************************************************************)
(* Model of the c.chat client: the zustand store (src/src/lib/store.ts),   *)
(* the App component's message pipeline (src/src/App.tsx) and the sidebar  *)
(* thread operations (src/unnamed/part_001).  The persistence API, the     *)
(* realtime channel and the generative-completion API are the environment: *)
(* every await of the code is a separate step, whose outcome (success or   *)
(* error) the environment chooses.                                         *)
(***************************************************************************)
EXTENDS Integers, Sequences, FiniteSets, TLC

\* ---------------------------------------------------------------- bounds
MaxThreads == 3      \* thread identifiers the database ever hands out
MaxSends   == 2      \* accepted sendMessage calls
MaxFetches == 2      \* runs of the fetchMessages effect
MaxGestures == 4     \* user gestures (clicks and submits) of a run
MaxChunks  == 1      \* chunks a response stream delivers at most
MaxStream  == 2      \* the same, in the run of the streaming branch alone
MaxWords   == 5      \* longest message the classifier run enumerates
MaxHistory == 22     \* longest persisted history the seeding run starts from
MaxBody    == 502    \* longest message body the seed-text run starts from

\* ------------------------------------------------------------- constants
Null == 0                               \* currentChat: null
NewChatTitle == "New Chat"              \* the placeholder title
Titles == {NewChatTitle, "edited", "generated"}
Models == {"gemini-2.0-flash-001", "gemini-1.5-pro-002"}
DefaultModel == "gemini-2.0-flash-001"
ApiKeys == {"", "key"}
DefaultClient == "genAI"
ThreadIds == 1..MaxThreads
SendIds == 1..MaxSends
FetchIds == 1..MaxFetches
MaxHandles == MaxSends + MaxFetches
HandleIds == 1..MaxHandles

\* Two user messages: a one-word one and a statement of ten unrelated words.
ShortText == <<"ok">>
LongText == <<"here", "is", "a", "very", "long", "unrelated", "statement", "with", "many", "words">>
SendTexts == {ShortText, LongText}

\* ------------------------------------------------------------- variables
VARIABLES
  chats,          \* store.chats: the local thread list, newest first
  currentChat,    \* store.currentChat
  settings,       \* store.settings (aiModel, apiKey)
  gemini,         \* store.gemini: the completion client
  chatSessions,   \* store.chatSessions: the registry, a set of entries
  nextHandle,     \* identity of the next handle startChat() returns
  turns,          \* per handle: turns submitted to it so far
  messages,       \* App: the in-UI message list
  isLoading,      \* App: the in-flight flag
  error,          \* App: the error state (TRUE: a message is shown)
  rtEvents,       \* realtime INSERT events not yet delivered to the channel
  dbChats,        \* persistence: chats relation, id -> title
  dbMessages,     \* persistence: messages relation, in insertion order
  nextMsgId,      \* persistence: next message identifier
  nextChatId,     \* persistence: next thread identifier
  chatEvent,      \* a change of the chats relation not yet re-fetched
  fetchChats,     \* the running fetchChats call of the sidebar
  fetches,        \* runs of the fetchMessages effect
  nextFetch,
  sends,          \* sendMessage calls
  nextSend,
  titleGen,       \* generateChatTitle calls, one per send
  del,            \* the running deleteChat call
  edit,           \* the running saveEditedChat call
  create,         \* the running createNewChat call
  gestures,       \* user gestures so far
  clsIn,          \* classifier run: the (message, hasPrior) input
  clsOut,         \* classifier run: the decision of the send path
  regOut,         \* registry run: the last registry call and what it returned
  seedIn,         \* seed-text run: the persisted message initializeHistory reads
  seedOut         \* seed-text run: the turn it submits for that message

storeVars == <<chats, currentChat, settings, gemini, chatSessions, nextHandle, turns>>
appVars == <<messages, isLoading, error, rtEvents>>
dbVars == <<dbChats, dbMessages, nextMsgId, nextChatId, chatEvent>>
callVars == <<fetchChats, fetches, nextFetch, sends, nextSend, titleGen, del, edit, create>>
clsVars == <<clsIn, clsOut, regOut, seedIn, seedOut>>
otherVars == <<gestures, clsIn, clsOut, regOut, seedIn, seedOut>>
vars == <<storeVars, appVars, dbVars, callVars, otherVars>>

\* ------------------------------------------------------ Session Registry
HasSession(reg, chatId) == \E e \in reg : e.chatId = chatId
SessionOf(reg, chatId) == CHOOSE e \in reg : e.chatId = chatId

\* A faulty startChat: the session is bound to the default model.
NewSessionDefaultModel(chatId, hid, st, client) ==
  [chatId |-> chatId, hid |-> hid, model |-> DefaultModel, client |-> client]

\* A new session: gemini.getGenerativeModel({model: settings.aiModel}).startChat()
NewSession(chatId, hid, st, client) ==
  [chatId |-> chatId, hid |-> hid, model |-> st.aiModel, client |-> client]

\* A faulty getChatSession: the existing session is not looked up and the new one is added
\* next to it.
getChatSessionNoLookup(reg, chatId, hid, st, client) ==
  reg \cup {NewSession(chatId, hid, st, client)}

\* getChatSession: the registry after the call.  The spread
\* {...state.chatSessions, [chatId]: newSession} replaces the entry of chatId.
getChatSession(reg, chatId, hid, st, client) ==
  IF HasSession(reg, chatId) THEN reg
  ELSE {e \in reg : e.chatId # chatId} \cup {NewSession(chatId, hid, st, client)}

\* A faulty clearChatSession: the whole registry is dropped.
clearChatSessionAll(reg, chatId) == {}

\* clearChatSession: delete newChatSessions[chatId]
clearChatSession(reg, chatId) == {e \in reg : e.chatId # chatId}

\* updateSettings(updates): a field the caller leaves out is Absent.
Absent == "absent"
ModelChanged(st, updates) == updates.aiModel # Absent /\ updates.aiModel # st.aiModel
KeyChanged(st, updates) ==
  updates.apiKey # Absent /\ updates.apiKey # "" /\ updates.apiKey # st.apiKey
NewSettings(st, updates) ==
  [aiModel |-> IF updates.aiModel = Absent THEN st.aiModel ELSE updates.aiModel,
   apiKey |-> IF updates.apiKey = Absent THEN st.apiKey ELSE updates.apiKey]

\* A faulty updateSettings: the registry survives a model change.
SessionsAfterUpdateKeep(reg, st, updates) ==
  IF KeyChanged(st, updates) THEN {} ELSE reg

\* A faulty updateSettings: the registry survives the new client.
SessionsAfterUpdateKeepOnKey(reg, st, updates) ==
  IF ModelChanged(st, updates) THEN {} ELSE reg

\* What updateSettings leaves of the registry.
SessionsAfterUpdate(reg, st, updates) ==
  IF ModelChanged(st, updates) THEN {}
  ELSE IF KeyChanged(st, updates) THEN {}
  ELSE reg

\* ------------------------------------------------------------ call records
NoFetch == [pc |-> "unused", chat |-> Null, data |-> <<>>, ok |-> TRUE, hid |-> 0, idx |-> 0, n |-> 0]
NoSend == [pc |-> "unused", chat |-> Null, text |-> <<>>, emptyAtStart |-> FALSE,
           chats |-> <<>>, hfrom |-> 0, hid |-> 0, created |-> FALSE, resp |-> <<>>,
           hadPrior |-> FALSE, result |-> "none", att |-> "none", url |-> "", reqs |-> 0,
           chunks |-> 0, hturns |-> 0]
NoTitle == [pc |-> "none", chat |-> Null, chats |-> <<>>, wrote |-> FALSE, overwrote |-> ""]
Idle == [pc |-> "idle", chatId |-> Null, chats |-> <<>>, currentChat |-> Null, title |-> ""]
NoRegCall == [op |-> "none", chatId |-> Null, before |-> {}, after |-> {}, ret |-> Null,
              model |-> ""]
NoSeedMsg == [content |-> <<>>, is_ai |-> FALSE]
NoSeedTurn == [done |-> FALSE, prefix |-> "", body |-> <<>>, suffix |-> ""]

\* The database as the program finds it: thread 1, which the user has titled
\* and which holds one user/assistant pair, and thread 2, new and empty.
\* sentAs is bookkeeping of the model, no column of the relation: the
\* temporary identifier under which the send that persisted the row showed
\* the message in its list, 0 for a row no send of this run has written.
InitDbChats ==
  [c \in ThreadIds |-> IF c = 1 THEN "edited" ELSE IF c = 2 THEN NewChatTitle ELSE ""]
InitDbMessages ==
  << [id |-> 1, chat_id |-> 1, is_ai |-> FALSE, content |-> ShortText, isStreaming |-> FALSE,
      attachments |-> "none", sentAs |-> 0],
     [id |-> 2, chat_id |-> 1, is_ai |-> TRUE, content |-> <<"c1">>, isStreaming |-> FALSE,
      attachments |-> "none", sentAs |-> 0] >>

\* The state after construction, over the database db.
InitOver(db) ==
  /\ chats = <<>>
  /\ currentChat = Null
  /\ settings = [aiModel |-> DefaultModel, apiKey |-> ""]
  /\ gemini = DefaultClient
  /\ chatSessions = {}
  /\ nextHandle = 1
  /\ turns = [h \in HandleIds |-> [seed |-> 0, user |-> 0, last |-> 0, failed |-> 0]]
  /\ messages = <<>>
  /\ isLoading = FALSE
  /\ error = FALSE
  /\ rtEvents = <<>>
  /\ dbChats = InitDbChats
  /\ dbMessages = db
  /\ nextMsgId = Len(db) + 1
  /\ nextChatId = 3
  /\ chatEvent = TRUE
  /\ fetchChats = [pc |-> "idle", data |-> <<>>]
  /\ fetches = [f \in FetchIds |-> NoFetch]
  /\ nextFetch = 1
  /\ sends = [s \in SendIds |-> NoSend]
  /\ nextSend = 1
  /\ titleGen = [s \in SendIds |-> NoTitle]
  /\ del = Idle
  /\ edit = Idle
  /\ create = Idle
  /\ gestures = 0
  /\ regOut = NoRegCall

ProgramInit == InitOver(InitDbMessages)

Init ==
  /\ ProgramInit
  /\ clsIn = [text |-> <<>>, hasPrior |-> FALSE]
  /\ clsOut = "none"
  /\ seedIn = NoSeedMsg
  /\ seedOut = NoSeedTurn

\* ------------------------------------------------------------ persistence
ChatExists(c) == c # Null /\ dbChats[c] # ""
MessagesOf(db, c) == SelectSeq(db, LAMBDA m : m.chat_id = c)
ChatIds(list) == {list[i].id : i \in 1..Len(list)}

\* select('*').order('created_at', {ascending: false}): newest thread first
RECURSIVE ChatsFrom(_)
ChatsFrom(c) ==
  IF c = 0 THEN <<>>
  ELSE (IF dbChats[c] # "" THEN <<[id |-> c, title |-> dbChats[c]]>> ELSE <<>>)
       \o ChatsFrom(c - 1)

\* chats.map(chat => chat.id === chatId ? {...chat, title} : chat)
WithTitle(list, c, title) ==
  [i \in 1..Len(list) |-> IF list[i].id = c THEN [list[i] EXCEPT !.title = title] ELSE list[i]]

\* chats.filter(chat => chat.id !== chatId)
Without(list, c) == SelectSeq(list, LAMBDA x : x.id # c)

\* chats.find(chat => chat.id !== chatId), null when there is none
NextChat(list, c) == IF Without(list, c) = <<>> THEN Null ELSE Without(list, c)[1].id

\* ---------------------------------------------------- the messages effect
Window == 20

\* A faulty effect: the channel is replaced and the history is not reloaded.
MessagesEffectNoReload(rerun, chat) ==
  /\ rtEvents' = IF rerun THEN <<>> ELSE rtEvents
  /\ UNCHANGED <<fetches, nextFetch, isLoading, error>>

\* The useEffect on [currentChat, gemini, getChatSession]: the cleanup
\* unsubscribes the channel, then fetchMessages starts for the new thread.
EffectBudget(rerun, chat) == (rerun /\ chat # Null) => nextFetch <= MaxFetches

MessagesEffect(rerun, chat) ==
  IF rerun
  THEN /\ rtEvents' = <<>>
       /\ IF chat # Null
          THEN /\ fetches' = [fetches EXCEPT ![nextFetch] =
                                [NoFetch EXCEPT !.pc = "select", !.chat = chat]]
               /\ nextFetch' = nextFetch + 1
               /\ isLoading' = TRUE
               /\ error' = FALSE
          ELSE UNCHANGED <<fetches, nextFetch, isLoading, error>>
  ELSE UNCHANGED <<rtEvents, fetches, nextFetch, isLoading, error>>

\* A user gesture: a click or a submit.
Gesture == gestures < MaxGestures /\ gestures' = gestures + 1

\* ----------------------------------------------------------------- store
\* updateSettings(updates)
UpdateSettings(updates) ==
  /\ EffectBudget(KeyChanged(settings, updates), currentChat)
  /\ chatSessions' = SessionsAfterUpdate(chatSessions, settings, updates)
  /\ gemini' = IF KeyChanged(settings, updates) THEN updates.apiKey ELSE gemini
  /\ settings' = NewSettings(settings, updates)
  /\ MessagesEffect(KeyChanged(settings, updates), currentChat)
  /\ UNCHANGED <<chats, currentChat, nextHandle, turns, messages, dbVars,
                 fetchChats, sends, nextSend, titleGen, del, edit, create, clsVars>>
  /\ Gesture

\* SettingsModal.handleClearChatHistory
ClearChatHistory ==
  /\ currentChat # Null
  /\ chatSessions' = clearChatSession(chatSessions, currentChat)
  /\ UNCHANGED <<chats, currentChat, settings, gemini, nextHandle, turns,
                 appVars, dbVars, callVars, clsVars>>
  /\ Gesture

\* ----------------------------------------------------------------- sidebar
\* fetchChats, on mount and on every change of the chats relation: the select
FetchChatsSelect ==
  /\ chatEvent
  /\ fetchChats.pc = "idle"
  /\ fetchChats' = [pc |-> "select", data |-> ChatsFrom(MaxThreads)]
  /\ chatEvent' = FALSE
  /\ UNCHANGED <<storeVars, appVars, dbChats, dbMessages, nextMsgId, nextChatId,
                 fetches, nextFetch, sends, nextSend, titleGen, del, edit, create, otherVars>>

\* fetchChats: setChats(fetchedChats)
FetchChatsReturn ==
  /\ fetchChats.pc = "select"
  /\ chats' = fetchChats.data
  /\ fetchChats' = [pc |-> "idle", data |-> <<>>]
  /\ UNCHANGED <<currentChat, settings, gemini, chatSessions, nextHandle, turns,
                 appVars, dbVars, fetches, nextFetch, sends, nextSend, titleGen,
                 del, edit, create, otherVars>>

\* onClick={() => setCurrentChat(chat.id)}
SelectChat(c) ==
  /\ c \in ChatIds(chats)
  /\ c # currentChat
  /\ EffectBudget(TRUE, c)
  /\ currentChat' = c
  /\ MessagesEffect(TRUE, c)
  /\ UNCHANGED <<chats, settings, gemini, chatSessions, nextHandle, turns, messages,
                 dbVars, fetchChats, sends, nextSend, titleGen, del, edit, create, clsVars>>
  /\ Gesture

\* ---------------------------------------------------------- fetchMessages
\* The select of fetchMessages is answered: the rows of the thread, or an error.
FetchSelect(f, ok) ==
  /\ fetches[f].pc = "select"
  /\ fetches' = [fetches EXCEPT ![f].pc = "return",
                                ![f].ok = ok,
                                ![f].data = IF ok THEN MessagesOf(dbMessages, fetches[f].chat)
                                            ELSE <<>>]
  /\ UNCHANGED <<storeVars, appVars, dbVars, fetchChats, nextFetch, sends, nextSend,
                 titleGen, del, edit, create, otherVars>>

\* data.slice(-20)
RecentCount(data) == IF Len(data) > Window THEN Window ELSE Len(data)

\* A faulty slice: data.slice(0, 20)
RecentFromStart(data) == SubSeq(data, 1, RecentCount(data))

Recent(data) == SubSeq(data, Len(data) - RecentCount(data) + 1, Len(data))

\* fetchMessages after the await: setMessages(data); with data, the session of
\* the thread is recreated and initializeHistory submits the first message,
\* not awaited; finally setIsLoading(false).
FetchReturn(f) ==
  LET call == fetches[f]
      seeds == call.ok /\ Len(call.data) > 0
      cleared == clearChatSession(chatSessions, call.chat)
  IN
  /\ call.pc = "return"
  /\ isLoading' = FALSE
  /\ error' = IF call.ok THEN error ELSE TRUE
  /\ messages' = IF call.ok THEN call.data ELSE messages
  /\ IF seeds
     THEN /\ chatSessions' = getChatSession(cleared, call.chat, nextHandle, settings, gemini)
          /\ nextHandle' = nextHandle + 1
          /\ turns' = [turns EXCEPT ![nextHandle].seed = @ + 1,
                                    ![nextHandle].last = Recent(call.data)[1].id]
          /\ fetches' = [fetches EXCEPT ![f] =
                           [NoFetch EXCEPT !.pc = "seed", !.chat = call.chat,
                                           !.data = Recent(call.data),
                                           !.hid = nextHandle, !.idx = 1,
                                           !.n = RecentCount(call.data)]]
     ELSE /\ fetches' = [fetches EXCEPT ![f] = [NoFetch EXCEPT !.pc = "done"]]
          /\ UNCHANGED <<chatSessions, nextHandle, turns>>
  /\ UNCHANGED <<chats, currentChat, settings, gemini, rtEvents, dbVars, fetchChats,
                 nextFetch, sends, nextSend, titleGen, del, edit, create, otherVars>>

\* A faulty catch: the error of a seed turn is shown to the user.
SeedCatchSurfaced(err) == TRUE

\* catch (err) { console.error(...) }: the error state stays as it is.
SeedCatch(err) == err

\* initializeHistory: the awaited sendMessage of message idx returns, or it
\* throws, which is logged; either way the loop continues and the next
\* message is submitted.
SeedStep(f, ok) ==
  LET call == fetches[f]
      seen == [turns EXCEPT ![call.hid].failed = IF ok THEN @ ELSE @ + 1]
  IN
  /\ call.pc = "seed"
  /\ IF call.idx < call.n
     THEN /\ fetches' = [fetches EXCEPT ![f].idx = @ + 1]
          /\ turns' = [seen EXCEPT ![call.hid].seed = @ + 1,
                                   ![call.hid].last = call.data[call.idx + 1].id]
     ELSE /\ fetches' = [fetches EXCEPT ![f] = [NoFetch EXCEPT !.pc = "done"]]
          /\ turns' = seen
  /\ error' = IF ok THEN error ELSE SeedCatch(error)
  /\ UNCHANGED <<chats, currentChat, settings, gemini, chatSessions, nextHandle, messages,
                 isLoading, rtEvents, dbVars, fetchChats, nextFetch, sends, nextSend,
                 titleGen, del, edit, create, otherVars>>

\* The seed turn returns.
SeedReturn(f) ==
  /\ fetches[f].pc = "seed"
  /\ SeedStep(f, TRUE)

\* The seed turn throws.
SeedFailed(f) ==
  /\ fetches[f].pc = "seed"
  /\ SeedStep(f, FALSE)

\* The channel's INSERT handler: setMessages(prev => [...prev, payload.new])
RealtimeInsert ==
  /\ rtEvents # <<>>
  /\ messages' = Append(messages, Head(rtEvents))
  /\ rtEvents' = Tail(rtEvents)
  /\ UNCHANGED <<storeVars, isLoading, error, dbVars, callVars, otherVars>>

\* ------------------------------------------------------------ sendMessage
TempId(s) == 1 - 2 * s          \* 'temp-' + Date.now()
TempAiId(s) == 0 - 2 * s        \* 'temp-ai-' + Date.now()
Chunk(i) == IF i = 1 THEN "c1" ELSE IF i = 2 THEN "c2" ELSE IF i = 3 THEN "c3" ELSE "c4"

Row(id, c, ai, content) ==
  [id |-> id, chat_id |-> c, is_ai |-> ai, content |-> content, isStreaming |-> FALSE,
   attachments |-> "none", sentAs |-> 0]

\* An insert into messages is notified on the channel of the current thread
\* (filter chat_id=eq.currentChat).
Notified(row) == IF currentChat = row.chat_id THEN Append(rtEvents, row) ELSE rtEvents

\* selectedFiles: nothing, a document, or an image
Attachments == {"none", "file", "image"}
\* What uploadFiles returns for the selection: the file under a public URL,
\* the file under a local blob: URL, or nothing (the error is logged).
Uploads == {"remote", "blob", "failed"}

\* The optimistic user message: {...userMessage, id: tempId}
TempRow(s, c, text, att) == [Row(TempId(s), c, FALSE, text) EXCEPT !.attachments = att]

\* sendMessage up to its first await: the upload of the selected files, or
\* with no file selected the user-message insert.
SendMessage(text, att) ==
  /\ ~(text = <<>> /\ att = "none")
  /\ currentChat # Null
  /\ ~isLoading
  /\ nextSend <= MaxSends
  /\ isLoading' = TRUE
  /\ error' = FALSE
  /\ messages' = IF att = "none"
                 THEN Append(messages, TempRow(nextSend, currentChat, text, "none"))
                 ELSE messages
  /\ sends' = [sends EXCEPT ![nextSend] =
                 [NoSend EXCEPT !.pc = IF att = "none" THEN "insertUser" ELSE "upload",
                                !.chat = currentChat, !.text = text,
                                !.emptyAtStart = (Len(messages) = 0), !.chats = chats,
                                !.hfrom = nextHandle, !.att = att]]
  /\ nextSend' = nextSend + 1
  /\ UNCHANGED <<storeVars, rtEvents, dbVars, fetchChats, fetches, nextFetch, titleGen,
                 del, edit, create, clsVars>>
  /\ Gesture

\* uploadFiles returns: the optimistic user message is added with the files
\* that were uploaded, and the insert is awaited.  Only the URL of an image is
\* read later on.
SendUploaded(s, res) ==
  LET call == sends[s]
      att == IF res = "failed" THEN "none" ELSE call.att
  IN
  /\ call.pc = "upload"
  /\ messages' = Append(messages, TempRow(s, call.chat, call.text, att))
  /\ sends' = [sends EXCEPT ![s].pc = "insertUser", ![s].att = att,
                            ![s].url = IF att = "image" THEN res ELSE ""]
  /\ UNCHANGED <<storeVars, isLoading, error, rtEvents, dbVars, fetchChats, fetches,
                 nextFetch, nextSend, titleGen, del, edit, create, otherVars>>

\* const chatSession = getChatSession(currentChat): the registry after
\* sendMessage has taken its session.  Nothing on the way from the submit to
\* this call looks at the message or at the thread's history, and nothing
\* clears the session.
SendSession(reg, chatId, text, hasPrior, hid, st, client) ==
  getChatSession(reg, chatId, hid, st, client)

\* The session is taken from the registry and the first model request is
\* submitted on it: chat.sendMessage for a message with image parts,
\* chat.sendMessageStream otherwise.
Dispatch(s, image, prior) ==
  LET call == sends[s]
      reg == SendSession(chatSessions, call.chat, call.text, prior, nextHandle, settings, gemini)
      session == SessionOf(reg, call.chat)
  IN
  /\ chatSessions' = reg
  /\ nextHandle' = IF HasSession(chatSessions, call.chat) THEN nextHandle ELSE nextHandle + 1
  /\ turns' = [turns EXCEPT ![session.hid].user = @ + 1]
  /\ sends' = [sends EXCEPT ![s].pc = IF image THEN "image1" ELSE "stream",
                            ![s].hid = session.hid,
                            ![s].created = ~HasSession(chatSessions, call.chat),
                            ![s].hadPrior = prior,
                            ![s].reqs = 1,
                            ![s].hturns = 1]

\* sendMessage from the persisted user message on: the assistant placeholder
\* is added; an image under a blob: URL is fetched first (an await), otherwise
\* the session is taken and the model request submitted.
AfterUserInsert(s, att) ==
  LET call == sends[s]
      row == [Row(nextMsgId, call.chat, FALSE, call.text) EXCEPT !.attachments = att,
                                                                !.sentAs = TempId(s)]
      prior == MessagesOf(dbMessages, call.chat) # <<>>
  IN
  /\ ChatExists(call.chat)
  /\ dbMessages' = Append(dbMessages, row)
  /\ nextMsgId' = nextMsgId + 1
  /\ rtEvents' = Notified(row)
  /\ messages' = Append(messages, [Row(TempAiId(s), call.chat, TRUE, <<>>) EXCEPT !.isStreaming = TRUE])
  /\ IF call.att = "image" /\ call.url = "blob"
     THEN /\ sends' = [sends EXCEPT ![s].pc = "prepare", ![s].hadPrior = prior]
          /\ UNCHANGED <<chatSessions, nextHandle, turns>>
     ELSE Dispatch(s, call.att = "image", prior)
  /\ UNCHANGED <<chats, currentChat, settings, gemini, isLoading, error, dbChats,
                 nextChatId, chatEvent, fetchChats, fetches, nextFetch, nextSend,
                 titleGen, del, edit, create, otherVars>>

\* The user message is persisted with its attachments.
SendUserInserted(s) ==
  /\ sends[s].pc = "insertUser"
  /\ AfterUserInsert(s, sends[s].att)

\* A call that has returned keeps what it found and how it ended.
Finished(call, result) ==
  [NoSend EXCEPT !.pc = "done", !.chat = call.chat, !.hadPrior = call.hadPrior,
                 !.result = result]

\* The outer catch sets the error, finally releases the flag.
Aborted(s) ==
  /\ error' = TRUE
  /\ isLoading' = FALSE
  /\ sends' = [sends EXCEPT ![s] = Finished(sends[s], "userFailed")]
  /\ UNCHANGED <<storeVars, messages, rtEvents, dbVars, fetchChats, fetches, nextFetch,
                 nextSend, titleGen, del, edit, create, otherVars>>

\* A faulty retry condition: every insert error is retried.
RetriesAlways(names) == TRUE

\* userMessageError.message?.includes('attachments')
Retries(names) == names

\* The insert fails.  An error whose message names the attachments field is
\* answered by a second insert without the field, which is awaited; any other
\* error is thrown to the outer catch.
SendUserInsertFailed(s, names) ==
  /\ sends[s].pc = "insertUser"
  /\ IF Retries(names)
     THEN /\ sends' = [sends EXCEPT ![s].pc = "retryUser"]
          /\ UNCHANGED <<storeVars, appVars, dbVars, fetchChats, fetches, nextFetch,
                         nextSend, titleGen, del, edit, create, otherVars>>
     ELSE Aborted(s)

\* The second insert returns: the message is persisted without attachments
\* and the send goes on, or retryError is thrown to the outer catch.
SendUserRetried(s, ok) ==
  /\ sends[s].pc = "retryUser"
  /\ IF ok THEN AfterUserInsert(s, "none") ELSE Aborted(s)

\* The image under the blob: URL has been read (imageParts holds it), or the
\* read failed (logged; imageParts stays empty and the message is streamed).
SendImagePrepared(s, ok) ==
  /\ sends[s].pc = "prepare"
  /\ Dispatch(s, ok, sends[s].hadPrior)
  /\ UNCHANGED <<chats, currentChat, settings, gemini, appVars, dbVars, fetchChats,
                 fetches, nextFetch, nextSend, titleGen, del, edit, create, otherVars>>

\* A faulty update: the list is returned as it was.
WithContentKept(list, id, content) == list

\* prev.map(msg => msg.id === tempAiId ? {...msg, ...} : msg)
WithContent(list, id, content) ==
  [i \in 1..Len(list) |-> IF list[i].id = id THEN [list[i] EXCEPT !.content = content] ELSE list[i]]
Completed(list, id) ==
  [i \in 1..Len(list) |-> IF list[i].id = id THEN [list[i] EXCEPT !.isStreaming = FALSE] ELSE list[i]]

\* A faulty accumulation: the response is the chunk that arrived last.
AccumulateLast(full, chunk) == <<chunk>>

\* fullResponse += chunkText
Accumulate(full, chunk) == Append(full, chunk)

\* for await (const chunk of streamResult.stream)
SendChunk(s, n) ==
  LET call == sends[s]
      full == Accumulate(call.resp, Chunk(call.chunks + 1))
  IN
  /\ call.pc = "stream"
  /\ call.chunks < n
  /\ sends' = [sends EXCEPT ![s].resp = full, ![s].chunks = @ + 1]
  /\ messages' = WithContent(messages, TempAiId(s), full)
  /\ UNCHANGED <<storeVars, isLoading, error, rtEvents, dbVars, fetchChats, fetches,
                 nextFetch, nextSend, titleGen, del, edit, create, otherVars>>

\* The stream ends: the placeholder is completed and the insert is awaited.
SendStreamEnd(s) ==
  /\ sends[s].pc = "stream"
  /\ sends' = [sends EXCEPT ![s].pc = "insertAi"]
  /\ messages' = Completed(messages, TempAiId(s))
  /\ UNCHANGED <<storeVars, isLoading, error, rtEvents, dbVars, fetchChats, fetches,
                 nextFetch, nextSend, titleGen, del, edit, create, otherVars>>

\* A faulty inner catch: the placeholder stays in the list.
WithoutMessageKept(list, id) == list

\* prev.filter(msg => msg.id !== tempAiId)
WithoutMessage(list, id) == SelectSeq(list, LAMBDA m : m.id # id)

\* The send awaits a model request inside the inner try.
ModelPcs == {"stream", "image1", "image2"}

\* The request or the stream throws: the inner catch sets the error and
\* removes the placeholder, finally releases the flag.
SendStreamFailed(s) ==
  /\ sends[s].pc \in ModelPcs
  /\ error' = TRUE
  /\ messages' = WithoutMessage(messages, TempAiId(s))
  /\ isLoading' = FALSE
  /\ sends' = [sends EXCEPT ![s] = Finished(sends[s], "modelFailed")]
  /\ UNCHANGED <<storeVars, rtEvents, dbVars, fetchChats, fetches, nextFetch, nextSend,
                 titleGen, del, edit, create, otherVars>>

\* ------------------------------------------------- the multimodal branch
\* chat.sendMessage(newMessage + fileInfoPrompt) has returned; generateContent
\* is requested of the model gemini-1.5-pro-002, outside the session.
SendImageTurn(s) ==
  /\ sends[s].pc = "image1"
  /\ sends' = [sends EXCEPT ![s].pc = "image2", ![s].reqs = @ + 1]
  /\ UNCHANGED <<storeVars, appVars, dbVars, fetchChats, fetches, nextFetch, nextSend,
                 titleGen, del, edit, create, otherVars>>

\* generateContent answers: the placeholder takes the full response, and the
\* user message is submitted to the session once more, cut to 200 characters.
SendImageAnswered(s) ==
  LET call == sends[s] IN
  /\ call.pc = "image2"
  /\ messages' = Completed(WithContent(messages, TempAiId(s), <<Chunk(1)>>), TempAiId(s))
  /\ turns' = [turns EXCEPT ![call.hid].user = @ + 1]
  /\ sends' = [sends EXCEPT ![s].pc = "image3", ![s].resp = <<Chunk(1)>>, ![s].reqs = @ + 1,
                            ![s].hturns = @ + 1]
  /\ UNCHANGED <<chats, currentChat, settings, gemini, chatSessions, nextHandle, isLoading,
                 error, rtEvents, dbVars, fetchChats, fetches, nextFetch, nextSend,
                 titleGen, del, edit, create, otherVars>>

\* That request returns: the response, cut to 500 characters, is submitted to
\* the session as "AI: ..."; when it throws, historyError is logged and the
\* insert of the assistant message is awaited.
SendImageSummary(s, ok) ==
  LET call == sends[s] IN
  /\ call.pc = "image3"
  /\ IF ok
     THEN /\ turns' = [turns EXCEPT ![call.hid].user = @ + 1]
          /\ sends' = [sends EXCEPT ![s].pc = "image4", ![s].reqs = @ + 1,
                                    ![s].hturns = @ + 1]
     ELSE /\ sends' = [sends EXCEPT ![s].pc = "insertAi"]
          /\ UNCHANGED turns
  /\ UNCHANGED <<chats, currentChat, settings, gemini, chatSessions, nextHandle, appVars,
                 dbVars, fetchChats, fetches, nextFetch, nextSend, titleGen, del, edit,
                 create, otherVars>>

\* The "AI: ..." request returns or throws (logged): the insert of the
\* assistant message is awaited.
SendImageSummarised(s) ==
  /\ sends[s].pc = "image4"
  /\ sends' = [sends EXCEPT ![s].pc = "insertAi"]
  /\ UNCHANGED <<storeVars, appVars, dbVars, fetchChats, fetches, nextFetch, nextSend,
                 titleGen, del, edit, create, otherVars>>

\* generateChatTitle up to its await: skipped when the captured thread list
\* shows a title other than the placeholder.
TitleSkipped(list, c) == \E i \in 1..Len(list) : list[i].id = c /\ list[i].title # NewChatTitle

\* The insert of the assistant message returns (an error is only logged);
\* generateChatTitle is called for a first message; finally releases the flag.
SendAiInserted(s, ok) ==
  LET call == sends[s]
      row == [Row(nextMsgId, call.chat, TRUE, call.resp) EXCEPT !.sentAs = TempAiId(s)]
  IN
  /\ call.pc = "insertAi"
  /\ ok => ChatExists(call.chat)
  /\ IF ok
     THEN /\ dbMessages' = Append(dbMessages, row)
          /\ nextMsgId' = nextMsgId + 1
          /\ rtEvents' = Notified(row)
     ELSE UNCHANGED <<dbMessages, nextMsgId, rtEvents>>
  /\ titleGen' = IF call.emptyAtStart
                 THEN [titleGen EXCEPT ![s] =
                         IF TitleSkipped(call.chats, call.chat)
                         THEN [NoTitle EXCEPT !.pc = "skipped", !.chat = call.chat]
                         ELSE [NoTitle EXCEPT !.pc = "generate", !.chat = call.chat,
                                              !.chats = call.chats]]
                 ELSE titleGen
  /\ isLoading' = FALSE
  /\ sends' = [sends EXCEPT ![s] = Finished(call, IF ok THEN "ok" ELSE "aiInsertFailed")]
  /\ UNCHANGED <<storeVars, messages, error, dbChats, nextChatId, chatEvent, fetchChats,
                 fetches, nextFetch, nextSend, del, edit, create, otherVars>>

\* -------------------------------------------------------- generateChatTitle
\* The dialogue model answers and the title is written: update({title})
\* .eq('id', chatId), then setChats maps the thread list the call captured.
TitleWritten(s) ==
  LET call == titleGen[s] IN
  /\ call.pc = "generate"
  /\ dbChats' = IF ChatExists(call.chat) THEN [dbChats EXCEPT ![call.chat] = "generated"]
                ELSE dbChats
  /\ chatEvent' = (chatEvent \/ ChatExists(call.chat))
  /\ chats' = WithTitle(call.chats, call.chat, "generated")
  /\ titleGen' = [titleGen EXCEPT ![s] =
                    [NoTitle EXCEPT !.pc = "done", !.chat = call.chat,
                                    !.wrote = ChatExists(call.chat),
                                    !.overwrote = dbChats[call.chat]]]
  /\ UNCHANGED <<currentChat, settings, gemini, chatSessions, nextHandle, turns, appVars,
                 dbMessages, nextMsgId, nextChatId, fetchChats, fetches, nextFetch,
                 sends, nextSend, del, edit, create, otherVars>>

\* The title request or the update fails: logged, nothing else.
TitleFailed(s) ==
  /\ titleGen[s].pc = "generate"
  /\ titleGen' = [titleGen EXCEPT ![s] = [NoTitle EXCEPT !.pc = "failed", !.chat = titleGen[s].chat]]
  /\ UNCHANGED <<storeVars, appVars, dbVars, fetchChats, fetches, nextFetch, sends,
                 nextSend, del, edit, create, otherVars>>

\* ---------------------------------------------------------- saveEditedChat
\* The click that saves a non-empty edited title: the update is awaited.
SaveEditedChat(c) ==
  /\ edit.pc = "idle"
  /\ c \in ChatIds(chats)
  /\ edit' = [Idle EXCEPT !.pc = "update", !.chatId = c, !.chats = chats, !.title = "edited"]
  /\ UNCHANGED <<storeVars, appVars, dbVars, fetchChats, fetches, nextFetch, sends,
                 nextSend, titleGen, del, create, clsVars>>
  /\ Gesture

\* The update returns: on success setChats maps the captured thread list.
SaveEditedChatReturn(ok) ==
  /\ edit.pc = "update"
  /\ edit' = Idle
  /\ IF ok
     THEN /\ dbChats' = IF ChatExists(edit.chatId) THEN [dbChats EXCEPT ![edit.chatId] = edit.title]
                        ELSE dbChats
          /\ chatEvent' = (chatEvent \/ ChatExists(edit.chatId))
          /\ chats' = WithTitle(edit.chats, edit.chatId, edit.title)
     ELSE UNCHANGED <<dbChats, chatEvent, chats>>
  /\ UNCHANGED <<currentChat, settings, gemini, chatSessions, nextHandle, turns, appVars,
                 dbMessages, nextMsgId, nextChatId, fetchChats, fetches, nextFetch,
                 sends, nextSend, titleGen, del, create, otherVars>>

\* ----------------------------------------------------------- createNewChat
CreateNewChat ==
  /\ create.pc = "idle"
  /\ nextChatId <= MaxThreads
  /\ create' = [Idle EXCEPT !.pc = "insert", !.chats = chats]
  /\ UNCHANGED <<storeVars, appVars, dbVars, fetchChats, fetches, nextFetch, sends,
                 nextSend, titleGen, del, edit, clsVars>>
  /\ Gesture

\* The insert returns the new thread: setChats([chat, ...chats]) on the
\* captured list, setCurrentChat(chat.id).
CreateNewChatReturn(ok) ==
  /\ create.pc = "insert"
  /\ create' = Idle
  /\ IF ok
     THEN /\ nextChatId <= MaxThreads
          /\ EffectBudget(TRUE, nextChatId)
          /\ dbChats' = [dbChats EXCEPT ![nextChatId] = NewChatTitle]
          /\ nextChatId' = nextChatId + 1
          /\ chatEvent' = TRUE
          /\ chats' = <<[id |-> nextChatId, title |-> NewChatTitle]>> \o create.chats
          /\ currentChat' = nextChatId
          /\ MessagesEffect(TRUE, nextChatId)
     ELSE UNCHANGED <<dbChats, nextChatId, chatEvent, chats, currentChat, rtEvents,
                      fetches, nextFetch, isLoading, error>>
  /\ UNCHANGED <<settings, gemini, chatSessions, nextHandle, turns, messages, dbMessages,
                 nextMsgId, fetchChats, sends, nextSend, titleGen, del, edit,
                 otherVars>>

\* -------------------------------------------------------------- deleteChat
\* The click: clearChatSession(chatId), then the delete of the messages is
\* awaited.
DeleteChat(c) ==
  /\ del.pc = "idle"
  /\ c \in ChatIds(chats)
  /\ chatSessions' = clearChatSession(chatSessions, c)
  /\ del' = [Idle EXCEPT !.pc = "messages", !.chatId = c, !.chats = chats,
                         !.currentChat = currentChat]
  /\ UNCHANGED <<chats, currentChat, settings, gemini, nextHandle, turns, appVars, dbVars,
                 fetchChats, fetches, nextFetch, sends, nextSend, titleGen, edit, create,
                 clsVars>>
  /\ Gesture

\* The delete of the messages returns (an error is logged and the call goes
\* on); the delete of the thread is awaited.
DeleteChatMessages(ok) ==
  /\ del.pc = "messages"
  /\ del' = [del EXCEPT !.pc = "chat"]
  /\ dbMessages' = IF ok THEN SelectSeq(dbMessages, LAMBDA m : m.chat_id # del.chatId)
                   ELSE dbMessages
  /\ UNCHANGED <<storeVars, appVars, dbChats, nextMsgId, nextChatId, chatEvent, fetchChats,
                 fetches, nextFetch, sends, nextSend, titleGen, edit, create,
                 otherVars>>

\* The delete of the thread returns.  It fails while messages reference the
\* thread (messages.chat_id REFERENCES chats(id)); on success the captured
\* list is filtered and, when the captured selection was the thread, another
\* thread of the captured list or null is selected.
DeleteChatReturn(ok) ==
  LET next == NextChat(del.chats, del.chatId)
      moves == del.currentChat = del.chatId
      selected == IF moves THEN next ELSE currentChat
  IN
  /\ del.pc = "chat"
  /\ del' = Idle
  /\ IF ok
     THEN /\ MessagesOf(dbMessages, del.chatId) = <<>>
          /\ EffectBudget(selected # currentChat, selected)
          /\ dbChats' = [dbChats EXCEPT ![del.chatId] = ""]
          /\ chatEvent' = (chatEvent \/ ChatExists(del.chatId))
          /\ chats' = Without(del.chats, del.chatId)
          /\ currentChat' = selected
          /\ MessagesEffect(selected # currentChat, selected)
     ELSE UNCHANGED <<dbChats, chatEvent, chats, currentChat, rtEvents, fetches, nextFetch,
                      isLoading, error>>
  /\ UNCHANGED <<settings, gemini, chatSessions, nextHandle, turns, messages, dbMessages,
                 nextMsgId, nextChatId, fetchChats, sends, nextSend, titleGen, edit,
                 create, otherVars>>

\* ------------------------------------------------------------ the program
\* The callers pass one field: updateSettings({aiModel}) or ({apiKey}).
Updates ==
  [aiModel : Models, apiKey : {Absent}] \cup [aiModel : {Absent}, apiKey : ApiKeys]

\* Opening threads, loading and seeding their history.
Loading ==
  \/ FetchChatsSelect
  \/ FetchChatsReturn
  \/ \E c \in ThreadIds : SelectChat(c)
  \/ \E f \in FetchIds, ok \in BOOLEAN : FetchSelect(f, ok)
  \/ \E f \in FetchIds : FetchReturn(f)
  \/ \E f \in FetchIds : SeedReturn(f)

\* An accepted send: the user message is persisted.
Inserting ==
  \/ \E s \in SendIds : SendUserInserted(s)
  \/ \E s \in SendIds, names \in BOOLEAN : SendUserInsertFailed(s, names)
  \/ \E s \in SendIds, ok \in BOOLEAN : SendUserRetried(s, ok)

\* An accepted send: the model request ends and the response is persisted.
Completing ==
  \/ \E s \in SendIds : SendStreamEnd(s)
  \/ \E s \in SendIds : SendStreamFailed(s)
  \/ \E s \in SendIds, ok \in BOOLEAN : SendAiInserted(s, ok)

\* The steps of an accepted send whose stream delivers at most n chunks.
Sending(n) ==
  \/ Inserting
  \/ \E s \in SendIds : SendChunk(s, n)
  \/ Completing

\* Opening threads and sending text messages.
Pipeline(texts) ==
  \/ Loading
  \/ \E t \in texts : SendMessage(t, "none")
  \/ Sending(MaxChunks)

\* The session registry under every operation that reads or writes it.
Next ==
  \/ Pipeline(SendTexts)
  \/ \E u \in Updates : UpdateSettings(u)
  \/ ClearChatHistory
  \/ \E c \in ThreadIds : DeleteChat(c)
  \/ \E ok \in BOOLEAN : DeleteChatMessages(ok)
  \/ \E ok \in BOOLEAN : DeleteChatReturn(ok)

Spec == Init /\ [][Next]_vars

\* Thread titles: title generation after a send against the user's edits,
\* with the channel's notifications delivered.
TitleNext ==
  \/ Pipeline({LongText})
  \/ RealtimeInsert
  \/ \E s \in SendIds : TitleWritten(s)
  \/ \E s \in SendIds : TitleFailed(s)
  \/ \E c \in ThreadIds : SaveEditedChat(c)
  \/ \E ok \in BOOLEAN : SaveEditedChatReturn(ok)

SpecTitle == Init /\ [][TitleNext]_vars

\* The thread list: title generation after a send against the sidebar's
\* creating, renaming and deleting of threads.  The sends of this run are
\* those that reach title generation: no insert and no request of theirs
\* fails, and their streams deliver no chunk.
ThreadsNext ==
  \/ Loading
  \/ SendMessage(LongText, "none")
  \/ \E s \in SendIds : SendUserInserted(s)
  \/ \E s \in SendIds : SendStreamEnd(s)
  \/ \E s \in SendIds : SendAiInserted(s, TRUE)
  \/ \E s \in SendIds : TitleWritten(s)
  \/ \E s \in SendIds : TitleFailed(s)
  \/ CreateNewChat
  \/ \E ok \in BOOLEAN : CreateNewChatReturn(ok)
  \/ \E c \in ThreadIds : SaveEditedChat(c)
  \/ \E ok \in BOOLEAN : SaveEditedChatReturn(ok)
  \/ \E c \in ThreadIds : DeleteChat(c)
  \/ \E ok \in BOOLEAN : DeleteChatMessages(ok)
  \/ \E ok \in BOOLEAN : DeleteChatReturn(ok)

SpecThreads == Init /\ [][ThreadsNext]_vars

\* Sends with attachments: the upload, the retried insert and the multimodal
\* branch, against thread switching and history loading.
\* The message is an image without text: a document goes the way of an image
\* whose read failed, and a failed upload the way of a message without files.
\* The streams of this run deliver no chunk.
AttachNext ==
  \/ Loading
  \/ Inserting
  \/ Completing
  \/ SendMessage(<<>>, "image")
  \/ \E s \in SendIds, res \in Uploads : SendUploaded(s, res)
  \/ \E s \in SendIds, ok \in BOOLEAN : SendImagePrepared(s, ok)
  \/ \E s \in SendIds : SendImageTurn(s)
  \/ \E s \in SendIds : SendImageAnswered(s)
  \/ \E s \in SendIds, ok \in BOOLEAN : SendImageSummary(s, ok)
  \/ \E s \in SendIds : SendImageSummarised(s)

SpecAttach == Init /\ [][AttachNext]_vars

\* The streaming branch alone: text messages whose streams deliver up to
\* MaxStream chunks.
StreamNext ==
  \/ Loading
  \/ \E t \in SendTexts : SendMessage(t, "none")
  \/ Sending(MaxStream)

SpecStream == Init /\ [][StreamNext]_vars

\* The same run when every external call of a send returns: the insert, the
\* request and the stream of an accepted send do not stay pending for ever.
SendReturns(s) ==
  \/ SendUserInserted(s)
  \/ \E names \in BOOLEAN : SendUserInsertFailed(s, names)
  \/ \E ok \in BOOLEAN : SendUserRetried(s, ok)
  \/ SendChunk(s, MaxStream)
  \/ SendStreamEnd(s)
  \/ SendStreamFailed(s)
  \/ \E ok \in BOOLEAN : SendAiInserted(s, ok)

SpecStreamFair == SpecStream /\ \A s \in SendIds : WF_vars(SendReturns(s))

\* The seeding run: thread 1 holds any number of persisted messages up to
\* MaxHistory when the program starts, and threads are opened.
History(k) == [i \in 1..k |-> Row(i, 1, i % 2 = 0, <<Chunk(1)>>)]

SeedInit ==
  /\ \E k \in 0..MaxHistory : InitOver(History(k))
  /\ clsIn = [text |-> <<>>, hasPrior |-> FALSE]
  /\ clsOut = "none"
  /\ seedIn = NoSeedMsg
  /\ seedOut = NoSeedTurn

SeedNext == Loading

SpecSeed == SeedInit /\ [][SeedNext]_vars

\* Seeding that fails: threads are opened, seed turns return or throw, and
\* the one-word message is sent.
SeedFailNext ==
  \/ Loading
  \/ \E f \in FetchIds : SeedFailed(f)
  \/ SendMessage(ShortText, "none")
  \/ Sending(MaxChunks)

SpecSeedFail == Init /\ [][SeedFailNext]_vars

\* ------------------------------------------------------------ seed text
\* initializeHistory, one message: a body is a sequence of characters, each
\* standing for its position.  msg.content.substring(0, 500)
SeedBudget == 500
Substring(body, n) == SubSeq(body, 1, IF Len(body) > n THEN n ELSE Len(body))

\* The turn submitted for a message: the body cut to 500 characters, behind
\* "AI response: " for an assistant message; nothing is appended.
SeedText(msg) ==
  [done |-> TRUE,
   prefix |-> IF msg.is_ai THEN "AI response: " ELSE "",
   body |-> Substring(msg.content, SeedBudget),
   suffix |-> ""]

\* The seed-text run: a persisted message of any length up to MaxBody, of the
\* user or of the assistant, goes through one round of the seeding loop.
Body(n) == [i \in 1..n |-> i]

SeedTextInit ==
  /\ ProgramInit
  /\ clsIn = [text |-> <<>>, hasPrior |-> FALSE]
  /\ clsOut = "none"
  /\ seedIn \in [content : {Body(n) : n \in 0..MaxBody}, is_ai : BOOLEAN]
  /\ seedOut = NoSeedTurn

SeedTurn ==
  /\ ~seedOut.done
  /\ seedOut' = SeedText(seedIn)
  /\ UNCHANGED <<storeVars, appVars, dbVars, callVars, gestures, clsIn, clsOut, regOut, seedIn>>

SeedTextNext == SeedTurn

SpecSeedText == SeedTextInit /\ [][SeedTextNext]_vars

\* --------------------------------------------- Context Relevance Classifier
\* needs_context of the specification (section 4.3), on a message taken as
\* its trimmed, lower-cased sequence of whitespace-delimited tokens.
CueWords == {"previous", "before", "earlier", "remember"}
CuePairs == {<<"last", "time">>, <<"you", "said">>, <<"i", "said">>, <<"you", "mentioned">>}
CueTriple == <<"as", "i", "mentioned">>
Interrogatives == {"why", "how", "what", "when", "where", "who", "which"}
ShortBelow == 5

ContainsCue(text) ==
  \E i \in 1..Len(text) :
    \/ text[i] \in CueWords
    \/ i + 1 <= Len(text) /\ <<text[i], text[i + 1]>> \in CuePairs
    \/ i + 2 <= Len(text) /\ <<text[i], text[i + 1], text[i + 2]>> = CueTriple

needs_context(text, hasPrior) ==
  /\ hasPrior
  /\ \/ ContainsCue(text)
     \/ text # <<>> /\ text[1] \in Interrogatives
     \/ Len(text) < ShortBelow

\* The classifier run: every message of at most MaxWords tokens over a small
\* vocabulary, in a thread with or without prior messages, goes through the
\* send path's choice of session.  A thread with prior messages holds a
\* session (fetchMessages registered it); one without holds none.
Words == {"why", "remember", "you", "said", "ok"}
Texts == UNION {[1..n -> Words] : n \in 1..MaxWords}

ClassifierInit ==
  /\ ProgramInit
  /\ clsIn \in [text : Texts, hasPrior : BOOLEAN]
  /\ clsOut = "none"
  /\ seedIn = NoSeedMsg
  /\ seedOut = NoSeedTurn

Classify ==
  LET before == IF clsIn.hasPrior THEN {NewSession(1, 1, settings, gemini)} ELSE {}
      after == SendSession(before, 1, clsIn.text, clsIn.hasPrior, 2, settings, gemini)
  IN
  /\ clsOut = "none"
  /\ clsOut' = IF SessionOf(after, 1) \in before THEN "reused" ELSE "fresh"
  /\ UNCHANGED <<storeVars, appVars, dbVars, callVars, gestures, clsIn, regOut, seedIn, seedOut>>

ClassifierNext == Classify

SpecClassifier == ClassifierInit /\ [][ClassifierNext]_vars

\* ---------------------------------------------------------- registry run
\* The registry operations called directly, in any order and on any thread
\* identifier, between changes of the settings.
GetChatSession(t) ==
  LET reg == getChatSession(chatSessions, t, nextHandle, settings, gemini) IN
  /\ nextHandle <= MaxHandles
  /\ chatSessions' = reg
  /\ nextHandle' = IF HasSession(chatSessions, t) THEN nextHandle ELSE nextHandle + 1
  /\ regOut' = [op |-> "get", chatId |-> t, before |-> chatSessions, after |-> reg,
                ret |-> SessionOf(reg, t), model |-> settings.aiModel]
  /\ UNCHANGED <<chats, currentChat, settings, gemini, turns, appVars, dbVars, callVars,
                 gestures, clsIn, clsOut, seedIn, seedOut>>

ClearChatSession(t) ==
  LET reg == clearChatSession(chatSessions, t) IN
  /\ chatSessions' = reg
  /\ regOut' = [op |-> "clear", chatId |-> t, before |-> chatSessions, after |-> reg,
                ret |-> Null, model |-> settings.aiModel]
  /\ UNCHANGED <<chats, currentChat, settings, gemini, nextHandle, turns, appVars, dbVars,
                 callVars, gestures, clsIn, clsOut, seedIn, seedOut>>

RegistryNext ==
  \/ \E t \in ThreadIds : GetChatSession(t)
  \/ \E t \in ThreadIds : ClearChatSession(t)
  \/ \E u \in Updates : UpdateSettings(u)

SpecRegistry == Init /\ [][RegistryNext]_vars

\* ================================================================= claims
\* A model request of a send is in flight from the submission of the
\* streaming request until the stream has ended or failed.
InFlight(s) == sends[s].pc = "stream"
Seeding(f) == fetches[f].pc = "seed"
\* deleteChat has deleted the thread: the database handed the identifier out
\* and the row is gone.
Deleted(c) == c < nextChatId /\ dbChats[c] = ""

C2_ModelChangeClearsHandles ==
  [][ /\ settings'.aiModel # settings.aiModel => chatSessions' = {}
      /\ \A e \in chatSessions' \ chatSessions : e.model = settings'.aiModel ]_vars

\* C2 witness: the model was changed after a first handle had been created,
\* and a session taken since is bound to the new model.
C2_Witness ==
  /\ settings.aiModel # DefaultModel
  /\ \E e \in chatSessions : e.hid > 1 /\ e.model = settings.aiModel

\* C3: at no time are the model requests of two different sends in flight
\* for the same thread.
C3_SendsSerializedPerThread ==
  \A s1, s2 \in SendIds :
    (s1 # s2 /\ InFlight(s1) /\ InFlight(s2)) => sends[s1].chat # sends[s2].chat

\* C4: the history of a thread is submitted to a new handle as one seed turn,
\* and no user turn is submitted to a handle while its seed is in progress.
C4_OneSeedTurnBeforeUserTurn ==
  /\ \A h \in HandleIds : turns[h].seed <= 1
  /\ \A f \in FetchIds, s \in SendIds :
       (Seeding(f) /\ InFlight(s)) => fetches[f].hid # sends[s].hid

\* C5: a send for which needs_context is false submits its user turn to a
\* handle created after the send started.
C5_ClearedWhenContextNotNeeded ==
  \A s \in SendIds :
    (InFlight(s) /\ ~needs_context(sends[s].text, sends[s].hadPrior))
      => sends[s].hid >= sends[s].hfrom

\* C6: the send path carries the context forward (reuses the thread's handle)
\* exactly when needs_context(message, hasPrior) is true.
C6_ClassifierDecides ==
  clsOut # "none" => ((clsOut = "reused") <=> needs_context(clsIn.text, clsIn.hasPrior))

\* C7: once deleteChat has deleted a thread, the registry holds no handle for
\* that thread in any later state.
C7_NoHandleForDeletedThread ==
  \A c \in ThreadIds : Deleted(c) => ~HasSession(chatSessions, c)

\* C8: when deleteChat completes for a thread, the thread's persisted
\* messages are gone, its handle is absent from the registry, the thread is
\* absent from the local thread list, and a selection that was on the thread
\* has moved to another listed thread or to none.
C8_DeleteChatPostcondition ==
  [][ \A c \in ThreadIds :
        (del.pc = "chat" /\ del.chatId = c /\ del'.pc = "idle" /\ ~Deleted(c) /\ Deleted(c)')
          => /\ MessagesOf(dbMessages', c) = <<>>
             /\ ~HasSession(chatSessions', c)
             /\ c \notin ChatIds(chats')
             /\ currentChat = c => currentChat' \in (ChatIds(chats') \cup {Null}) \ {c} ]_vars

\* C9: a generated title is written to a thread only if the thread carries
\* the placeholder title at the moment of the write.
C9_TitleWrittenOverPlaceholderOnly ==
  \A s \in SendIds :
    (titleGen[s].pc = "done" /\ titleGen[s].wrote) => titleGen[s].overwrote = NewChatTitle

\* C10: a send that completes the first-ever message pair of its thread calls
\* title generation; a send of a later pair, or one that fails, requests no
\* title.
C10_TitleAttemptOnFirstPairOnly ==
  \A s \in SendIds :
    sends[s].pc = "done" =>
      /\ (sends[s].result = "ok" /\ ~sends[s].hadPrior) => titleGen[s].pc # "none"
      /\ (sends[s].hadPrior \/ sends[s].result \in {"userFailed", "modelFailed"})
           => titleGen[s].pc \notin {"generate", "done", "failed"}


\* The identifiers of the rows of a list.
Ids(list) == {list[i].id : i \in 1..Len(list)}
\* The model request of send s fails in this step.
ModelFails(s) == sends[s].pc \in ModelPcs /\ sends'[s].pc = "done" /\ sends'[s].result = "modelFailed"
\* An assistant row is added to the messages relation in this step.
AiRowAdded == Len(dbMessages') > Len(dbMessages) /\ dbMessages'[Len(dbMessages')].is_ai

\* C11: a step in which the model request of a send fails removes the
\* send's assistant placeholder from the message list and sets the error
\* state, leaves every other row of the message list (the send's user message
\* among them) in place and leaves the messages relation as it is; and an
\* assistant row is only ever persisted by a send whose model request has
\* completed.
C11_ModelFailureAbortsPlaceholderOnly ==
  [][ /\ \A s \in SendIds :
          ModelFails(s) =>
            /\ TempAiId(s) \notin Ids(messages')
            /\ error'
            /\ messages' = SelectSeq(messages, LAMBDA m : m.id # TempAiId(s))
            /\ dbMessages' = dbMessages
      /\ AiRowAdded => \E s \in SendIds : sends[s].pc = "insertAi" ]_vars

\* C11 witness: a send has failed at its model request;
\* the error is shown, the placeholder is gone, and the user message
\* is in the message list and in the messages relation.
C11_Witness ==
  \E s \in SendIds :
    /\ sends[s].pc = "done" /\ sends[s].result = "modelFailed"
    /\ error
    /\ TempAiId(s) \notin Ids(messages)
    /\ TempId(s) \in Ids(messages)
    /\ \E i \in 1..Len(dbMessages) :
         ~dbMessages[i].is_ai /\ dbMessages[i].chat_id = sends[s].chat /\ dbMessages[i].id > 2

\* C12: getChatSession(t) returns the handle registered for t when there is
\* one and leaves the registry as it was; otherwise it returns a new handle
\* of t bound to the model identifier configured at the call, and the
\* registry is the old one with that handle added.  A second call on the
\* registry the first call left returns the same handle.
C12_GetChatSessionContract ==
  [][ /\ regOut'.op = "get" =>
          LET t == regOut'.chatId
              b == regOut'.before
              r == regOut'.ret
          IN IF \E e \in b : e.chatId = t
             THEN r \in b /\ r.chatId = t /\ regOut'.after = b
             ELSE /\ r.chatId = t
                  /\ r.model = regOut'.model
                  /\ r \notin b
                  /\ regOut'.after = b \cup {r}
      /\ (regOut.op = "get" /\ regOut'.op = "get" /\ regOut'.chatId = regOut.chatId
            /\ regOut'.before = regOut.after)
           => regOut'.ret = regOut.ret ]_vars

\* C12 witness: getChatSession has created a handle after the model was
\* changed, next to the handle of another thread.
C12_Witness ==
  /\ regOut.op = "get"
  /\ regOut.ret \notin regOut.before
  /\ regOut.before # {}
  /\ regOut.model # DefaultModel

\* C13: clearChatSession(t) leaves the registry without a handle of t and
\* with exactly the handles of the other threads it held, whether or not t
\* had a handle; applied again to the registry it left, it changes nothing.
C13_ClearChatSessionContract ==
  [][ /\ regOut'.op = "clear" =>
          /\ regOut'.after = {e \in regOut'.before : e.chatId # regOut'.chatId}
      /\ (regOut.op = "clear" /\ regOut'.op = "clear" /\ regOut'.chatId = regOut.chatId
            /\ regOut'.before = regOut.after)
           => regOut'.after = regOut.after ]_vars

\* C13 witness: clearChatSession has removed the handle of one thread from a
\* registry that holds the handle of another thread.
C13_Witness ==
  /\ regOut.op = "clear"
  /\ \E e \in regOut.before : e.chatId = regOut.chatId
  /\ regOut.after # {}

\* C13 witness of the absent case: clearChatSession was applied to a thread
\* without a handle.
C13_WitnessAbsent ==
  /\ regOut.op = "clear"
  /\ regOut.before # {}
  /\ ~\E e \in regOut.before : e.chatId = regOut.chatId

\* A send is running: accepted and not yet returned.
Running(s) == sends[s].pc \notin {"unused", "done"}
\* A run of fetchMessages has not reached its finally.
Fetching(f) == fetches[f].pc \in {"select", "return"}

\* C14: while a send is running in one thread and another thread is
\* current, with its history loaded and no send of its own running, the
\* in-flight flag is down: a send submitted in the current thread is accepted.
C14_SendsAcrossThreadsIndependent ==
  \A s \in SendIds :
    ( /\ Running(s)
      /\ currentChat \notin {Null, sends[s].chat}
      /\ \A f \in FetchIds : ~Fetching(f)
      /\ \A s2 \in SendIds : Running(s2) => sends[s2].chat # currentChat )
    => ~isLoading

\* C14 witness: the model requests of two sends are in flight in two
\* different threads.
C14_Witness ==
  \E s1, s2 \in SendIds :
    InFlight(s1) /\ InFlight(s2) /\ sends[s1].chat # sends[s2].chat

\* C15: a step accepts a send only if the message has a body or an
\* attachment and no send is running in the current thread.
C15_RejectedSendIsNoOp ==
  [][ nextSend' = nextSend + 1 =>
        /\ ~(sends'[nextSend].text = <<>> /\ sends'[nextSend].att = "none")
        /\ \A s \in SendIds : Running(s) => sends[s].chat # currentChat ]_vars

\* The send s is given up in this step: error state, nothing persisted, no
\* model request.
Aborts(s) ==
  /\ sends'[s].pc = "done" /\ sends'[s].result = "userFailed"
  /\ error'
  /\ dbMessages' = dbMessages
  /\ turns' = turns

\* The send s goes on in this step from the user message persisted without
\* attachments.
GoesOnWithoutAttachments(s) ==
  /\ sends'[s].pc \in {"prepare", "stream", "image1"}
  /\ Len(dbMessages') = Len(dbMessages) + 1
  /\ dbMessages'[Len(dbMessages')].attachments = "none"
  /\ ~dbMessages'[Len(dbMessages')].is_ai

\* C16: an insert error that names the attachments field is answered by one
\* second insert, without attachments, after which the send goes on or, when
\* that insert fails too, is given up; an insert error that does not name the
\* field gives the send up at once.
C16_AttachmentRetryOnce ==
  [][ \A s \in SendIds :
        /\ SendUserInsertFailed(s, TRUE) =>
             sends'[s].pc = "retryUser" /\ dbMessages' = dbMessages /\ turns' = turns
        /\ SendUserInsertFailed(s, FALSE) => Aborts(s)
        /\ (sends[s].pc = "retryUser" /\ sends'[s] # sends[s]) =>
             (GoesOnWithoutAttachments(s) \/ Aborts(s)) ]_vars

\* C16 witness: a send with an image goes on after the retry: its user
\* message is persisted without attachments.
C16_Witness ==
  \E s \in SendIds :
    /\ sends[s].pc \in {"prepare", "stream", "image1"}
    /\ sends[s].att = "image"
    /\ \E i \in 1..Len(dbMessages) :
         /\ dbMessages[i].chat_id = sends[s].chat
         /\ dbMessages[i].content = sends[s].text
         /\ dbMessages[i].id > 2
         /\ dbMessages[i].attachments = "none"

\* The chunks 1..n in arrival order.
Arrived(n) == [i \in 1..n |-> Chunk(i)]

C18_ImageSendSingleRequest ==
  \A s \in SendIds :
    sends[s].att = "image" =>
      /\ sends[s].pc # "stream"
      /\ sends[s].reqs <= 1
      /\ sends[s].pc = "insertAi" => (sends[s].reqs = 1 /\ sends[s].hturns = 1)

\* C19: a send that submits its user turn to a handle it has created itself,
\* in a thread with persisted messages, finds the handle seeded.
C19_NewHandleSeededBeforeUserTurn ==
  \A s \in SendIds :
    (sends[s].pc \in ModelPcs /\ sends[s].created /\ sends[s].hadPrior)
      => turns[sends[s].hid].seed > 0

\* C20: the k-th seed turn submitted to a handle is the k-th of the 20 most
\* recent persisted messages of the thread (of all of them when there are
\* fewer), and seeding ends when the last of them has been submitted.
C20_SeedsMostRecentTwenty ==
  [][ \A f \in FetchIds :
        LET all == MessagesOf(dbMessages, fetches'[f].chat)
            n == Len(all)
            w == IF n > 20 THEN 20 ELSE n
            h == fetches'[f].hid
        IN /\ (fetches'[f].pc = "seed" /\ fetches'[f] # fetches[f]) =>
                /\ turns'[h].seed = turns[h].seed + 1
                /\ turns'[h].seed = fetches'[f].idx
                /\ turns'[h].seed <= w
                /\ turns'[h].last = all[n - w + turns'[h].seed].id
           /\ (fetches[f].pc = "seed" /\ fetches'[f].pc = "done") =>
                LET m == Len(MessagesOf(dbMessages, fetches[f].chat))
                IN turns[fetches[f].hid].seed = IF m > 20 THEN 20 ELSE m ]_vars

\* C20 witness: a thread of more than 20 persisted messages has been seeded
\* to the end: 20 turns, the last of them the newest message.
C20_Witness ==
  \E h \in HandleIds :
    /\ Len(dbMessages) > 20
    /\ turns[h].seed = 20
    /\ turns[h].last = Len(dbMessages)

\* C21: the turn submitted for a persisted message carries the whole body and
\* no ellipsis when the body has at most 150 characters, and the first 150
\* characters followed by an ellipsis when it is longer.
C21_SeedBodyCutAt150 ==
  seedOut.done =>
    LET n == Len(seedIn.content) IN
    IF n <= 150
    THEN seedOut.body = seedIn.content /\ seedOut.suffix = ""
    ELSE seedOut.body = SubSeq(seedIn.content, 1, 150) /\ seedOut.suffix = "..."

\* C22: a step takes a handle out of the registry (removing or replacing it)
\* only if it changes the global model identifier, is the explicit clear of
\* the handle's thread, or is the deletion of the handle's thread.
C22_EvictedOnlyByDeleteClearModelChange ==
  [][ \A e \in chatSessions \ chatSessions' :
        \/ settings'.aiModel # settings.aiModel
        \/ ClearChatHistory /\ currentChat = e.chatId
        \/ DeleteChat(e.chatId) ]_vars

\* C23: a step in which a seed turn fails leaves the error state, the
\* in-flight flag, the selection, the registry and every send as they are,
\* and the seeding loop goes on; in every state a message submitted in a
\* thread with no load or send pending is accepted, and an accepted send
\* whose thread exists can persist its user message and submit its request.
C23_SeedFailureSwallowed ==
  /\ [][ \A f \in FetchIds :
           (fetches[f].pc = "seed" /\ turns'[fetches[f].hid].failed > turns[fetches[f].hid].failed)
             => /\ error' = error
                /\ isLoading' = isLoading
                /\ currentChat' = currentChat
                /\ chatSessions' = chatSessions
                /\ sends' = sends
                /\ fetches'[f].pc = IF fetches[f].idx < fetches[f].n THEN "seed" ELSE "done" ]_vars
  /\ [](\A s \in SendIds :
          (sends[s].pc = "insertUser" /\ ChatExists(sends[s].chat)) => ENABLED SendUserInserted(s))
  /\ []((currentChat # Null /\ ~isLoading /\ nextSend <= MaxSends /\ gestures < MaxGestures)
          => ENABLED SendMessage(ShortText, "none"))

\* C23 witness: the request of a send is in flight on a handle one of whose
\* seed turns has failed, and no error is shown.
C23_Witness ==
  \E s \in SendIds :
    /\ sends[s].pc = "stream"
    /\ turns[sends[s].hid].failed > 0
    /\ ~error

\* C24: an assistant placeholder that is in the message list and marked as
\* streaming belongs to a running send and carries the chunks received so
\* far, in arrival order; a step changes the body of a streaming placeholder
\* only by appending the next chunk, and leaves a completed placeholder
\* completed and its body as it is.
C24_PlaceholderAppendOnlyThenFrozen ==
  /\ [](\A s \in SendIds : \A i \in 1..Len(messages) :
          (messages[i].id = TempAiId(s) /\ messages[i].isStreaming)
            => /\ Running(s)
               /\ messages[i].content = Arrived(sends[s].chunks))
  /\ [][ \A s \in SendIds : \A i \in 1..Len(messages) : \A j \in 1..Len(messages') :
           (messages[i].id = TempAiId(s) /\ messages'[j].id = TempAiId(s))
             => IF messages[i].isStreaming
                THEN \/ messages'[j].content = messages[i].content
                     \/ messages'[j].content =
                          Append(messages[i].content, Chunk(Len(messages[i].content) + 1))
                ELSE /\ messages'[j].content = messages[i].content
                     /\ ~messages'[j].isStreaming ]_vars

\* C24 witness: a placeholder completed at the end of a stream of two chunks
\* is in the message list with both chunks as its body.
C24_Witness ==
  \E s \in SendIds : \E i \in 1..Len(messages) :
    /\ messages[i].id = TempAiId(s)
    /\ ~messages[i].isStreaming
    /\ messages[i].content = Arrived(2)

\* C25: every handle of the registry is bound to the model identifier that
\* is configured and was created from the completion client that is
\* configured.
C25_HandlesBoundToCurrentModelAndClient ==
  \A e \in chatSessions : e.model = settings.aiModel /\ e.client = gemini

\* C25 witness: after a change of the model and a change of the API key the
\* registry holds a handle, and a request of a send is in flight on it.
C25_Witness ==
  /\ settings.aiModel # DefaultModel
  /\ gemini # DefaultClient
  /\ \E e \in chatSessions : \E s \in SendIds : InFlight(s) /\ sends[s].hid = e.hid

\* C26: a step that submits a seed turn or a user turn to a handle submits it
\* to a handle that the registry holds at that moment.
C26_RequestsGoToRegisteredHandle ==
  [][ \A h \in HandleIds :
        (turns'[h].seed > turns[h].seed \/ turns'[h].user > turns[h].user)
          => \E e \in chatSessions' : e.hid = h ]_vars

\* C27: in every state every row of the message list belongs to the thread
\* that is selected.
C27_ListOfCurrentThreadOnly ==
  \A i \in 1..Len(messages) : messages[i].chat_id = currentChat

\* The message a row of the list stands for: the optimistic copy and the
\* persisted row of one send stand for the same message.
MessageOf(row) == IF row.id > 0 /\ row.sentAs # 0 THEN row.sentAs ELSE row.id

\* C28: no two rows of the message list stand for the same message.
C28_NoMessageTwiceInList ==
  \A i, j \in 1..Len(messages) :
    i # j => MessageOf(messages[i]) # MessageOf(messages[j])

\* Every accepted send returns, and the in-flight flag is down when it has.
SendReleasesFlag ==
  \A s \in SendIds : Running(s) ~> (~Running(s) /\ ~isLoading)

\* C29: every accepted send eventually releases the in-flight flag, and no
\* step releases the flag while a send that was running before the step is
\* still running after it.
C29_FlagReleasedBySendOnly ==
  /\ SendReleasesFlag
  /\ [][ \A s \in SendIds :
           (Running(s) /\ Running(s)') => ~(isLoading /\ ~isLoading') ]_vars

\* C30: the step in which title generation updates the local thread list
\* leaves the list with the threads it had (none added, none dropped) and
\* with the title of every thread other than the target as it was.
C30_TitleUpdateChangesTargetTitleOnly ==
  [][ \A s \in SendIds :
        (titleGen[s].pc = "generate" /\ titleGen'[s].pc = "done")
          => /\ ChatIds(chats') = ChatIds(chats)
             /\ \A i \in 1..Len(chats) : \A j \in 1..Len(chats') :
                  (chats[i].id = chats'[j].id /\ chats[i].id # titleGen[s].chat)
                    => chats'[j].title = chats[i].title ]_vars

====
